---- MODULE Spec2Model ----
(***************************************************************************)
(* The booking server of src/server/index.js as a state machine: the two   *)
(* in-memory collections, the session store and the submissions waiting    *)
(* for the mail relay; the rate limiter's count of a client's window comes *)
(* with each request, as the wall clock does.  One step handles one        *)
(* HTTP request through the middleware chain in registration order; a      *)
(* submission takes two steps (up to the await, and the relay's answer).   *)
(* req, res and mail hold what the latest step received, answered and did  *)
(* with the mail relay.                                                    *)
(***************************************************************************)
EXTENDS Integers, Sequences, FiniteSets, TLC

VARIABLES bookings, messages, uuidCount, sessions, pending, env,
          req, res, mail, writes

vars == <<bookings, messages, uuidCount, sessions, pending, env,
          req, res, mail, writes>>

\* The two collections.
store == <<bookings, messages>>

\* What the server holds between two steps.
server == <<bookings, messages, uuidCount, sessions, pending, env>>

----------------------------------------------------------------------------
\* Bounds of the model.

\* Steps that change what the server holds, counted from the initial state.
MaxWrites == 2
\* Distinct readings of the wall clock.
MaxTime == 2

\* Program constants.
RateMax == 200

\* The clock at startup, and the two days the second sample message is
\* older; a record without a timestamp field holds NoDate.
Startup == 3
TwoDays == 2
NoDate == 0

\* new Date(): the wall clock, which is not monotonic.
Times == Startup..(Startup + MaxTime - 1)

----------------------------------------------------------------------------
\* A string of a request body is a sequence of pieces of text; a blank is
\* the piece " ", and the empty string is the empty sequence.

Blank == " "

RECURSIVE TrimLeft(_)
TrimLeft(s) ==
  IF s # <<>> /\ Head(s) = Blank THEN TrimLeft(Tail(s)) ELSE s

RECURSIVE TrimRight(_)
TrimRight(s) ==
  IF s # <<>> /\ s[Len(s)] = Blank THEN TrimRight(SubSeq(s, 1, Len(s) - 1)) ELSE s

\* String.prototype.trim
trim(s) == TrimRight(TrimLeft(s))

\* A property the object does not have reads as undefined.
Undefined == <<"<undefined>">>

FieldOr(obj, name, default) == IF name \in DOMAIN obj THEN obj[name] ELSE default

Field(obj, name) == FieldOr(obj, name, Undefined)

\* !v for a form field: undefined and the empty string are falsy.
Falsy(v) == v = Undefined \/ v = <<>>

----------------------------------------------------------------------------
\* uuidv4(): the n-th identifier drawn is different from all drawn before.

UuidNames == <<"u1", "u2", "u3", "u4", "u5", "u6", "u7", "u8", "u9">>

\* A generator that hands out the identifier it handed out last.
uuidStale == UuidNames[uuidCount]

uuidv4 == UuidNames[uuidCount + 1]

IdsOf(coll) == {coll[i].id : i \in 1..Len(coll)}

\* Array.prototype.findIndex: the first index whose id matches, 0 for -1.
RECURSIVE FindFrom(_, _, _)
FindFrom(coll, id, i) ==
  IF i > Len(coll) THEN 0
  ELSE IF coll[i].id = id THEN i
  ELSE FindFrom(coll, id, i + 1)

\* A lookup that takes -1 for the last index.
findIndexOrLast(coll, id) ==
  IF FindFrom(coll, id, 1) = 0 THEN Len(coll) ELSE FindFrom(coll, id, 1)

findIndex(coll, id) == FindFrom(coll, id, 1)

----------------------------------------------------------------------------
\* The sample data.

sampleBookings ==
  << [id |-> "u1", clientName |-> <<"John Doe">>, clientEmail |-> <<"john@example.com">>,
      clientPhone |-> <<"555-0101">>, eventType |-> <<"Wedding">>,
      eventDate |-> <<"+7d">>, package |-> <<"Premium">>,
      startTime |-> Undefined, endTime |-> Undefined, location |-> Undefined,
      additionalNotes |-> <<"Outdoor ceremony requested">>, status |-> "pending",
      createdAt |-> Startup, updatedAt |-> NoDate],
     [id |-> "u2", clientName |-> <<"Jane Smith">>, clientEmail |-> <<"jane@example.com">>,
      clientPhone |-> <<"555-0202">>, eventType |-> <<"Portrait">>,
      eventDate |-> <<"+14d">>, package |-> <<"Basic">>,
      startTime |-> Undefined, endTime |-> Undefined, location |-> Undefined,
      additionalNotes |-> <<>>, status |-> "confirmed",
      createdAt |-> Startup, updatedAt |-> NoDate] >>

sampleMessages ==
  << [id |-> "u3", name |-> <<"Sarah Johnson">>, email |-> <<"sarah@example.com">>,
      phone |-> Undefined, subject |-> <<"Wedding Inquiry">>,
      message |-> <<"I would like information">>, date |-> Startup,
      read |-> FALSE, archived |-> FALSE, readAt |-> NoDate],
     [id |-> "u4", name |-> <<"Mike Brown">>, email |-> <<"mike@example.com">>,
      phone |-> Undefined, subject |-> <<"Availability Question">>,
      message |-> <<"Are you available">>, date |-> Startup - TwoDays,
      read |-> TRUE, archived |-> FALSE, readAt |-> NoDate] >>

----------------------------------------------------------------------------
\* Sessions.  The store maps a session id (the index) to its record; a
\* destroyed or regenerated session stays in the sequence as not live, so
\* that its id is never handed out again.

DeadSession == [live |-> FALSE, admin |-> FALSE, csrfSecret |-> 0]

\* express-session: the session a cookie restores, or a new, unsaved one.
SessionOf(cookie) ==
  IF cookie \in 1..Len(sessions) /\ sessions[cookie].live
  THEN [id |-> cookie, admin |-> sessions[cookie].admin,
        csrfSecret |-> sessions[cookie].csrfSecret]
  ELSE [id |-> 0, admin |-> FALSE, csrfSecret |-> 0]

NewSid == Len(sessions) + 1

\* A generator that hands every session the same secret.
secretFixed(sid) == 1

\* tokens.secretSync(): a secret no other session has.
secretSync(sid) == sid

\* csurf: the secret of the request's session, created when there is none.
SecretSid(r) == IF r.session.id = 0 THEN NewSid ELSE r.session.id

SecretOf(r) ==
  IF r.session.csrfSecret # 0 THEN r.session.csrfSecret
  ELSE secretSync(SecretSid(r))

\* A csurf whose new secret does not reach the session store.
WithSecretLost(r) == sessions

\* The session store after csurf has run on request r.
WithSecret(r) ==
  IF r.session.id = 0
  THEN Append(sessions, [live |-> TRUE, admin |-> FALSE, csrfSecret |-> SecretOf(r)])
  ELSE [sessions EXCEPT ![r.session.id].csrfSecret = SecretOf(r)]

\* tokens.create(secret) and tokens.verify(secret, token): a token carries
\* the secret it was made from; 0 is no token.
csrfToken(r) == SecretOf(r)

\* A verification that accepts whatever is presented.
verifyAnything(secret, token) == TRUE

verifyToken(secret, token) == token # 0 /\ token = secret

----------------------------------------------------------------------------
\* Requests and responses.

NoBody == [none |-> TRUE]
NoQuery == [none |-> TRUE]

NoRequest ==
  [method |-> "", path |-> <<>>, cookie |-> 0, hits |-> 0, token |-> 0,
   query |-> NoQuery, body |-> NoBody,
   session |-> [id |-> 0, admin |-> FALSE, csrfSecret |-> 0], route |-> ""]

NoResponse ==
  [status |-> 0, error |-> "", csrfToken |-> 0, data |-> <<>>, id |-> "",
   success |-> FALSE, emailSent |-> FALSE, authenticated |-> FALSE,
   file |-> "", sid |-> 0]

Status(code) == [NoResponse EXCEPT !.status = code]

Error(code, text) == [NoResponse EXCEPT !.status = code, !.error = text]

\* The cookie a response carries: the id of the stored session, if any.
Cookie(r, st) == [st EXCEPT !.sid = r.session.id]

----------------------------------------------------------------------------
\* The router: the layers in the order index.js registers them.

Range(f) == {f[i] : i \in DOMAIN f}

Match(p, pat) ==
  /\ Len(p) = Len(pat)
  /\ \A i \in 1..Len(pat) : pat[i] = ":id" \/ pat[i] = p[i]

UnderApi(p) == Len(p) >= 1 /\ p[1] = "api"

UnderAdmin(p) == Len(p) >= 2 /\ p[1] = "api" /\ p[2] = "admin"

IsGet(r, pat) ==
  r.method = "GET" /\ (r.path = pat \/ (":id" \in Range(pat) /\ Match(r.path, pat)))

IsPost(r, pat) ==
  r.method = "POST" /\ (r.path = pat \/ (":id" \in Range(pat) /\ Match(r.path, pat)))

\* The two token endpoints answer before the limiter is mounted.
CsrfTokenRoute(r) ==
  IsGet(r, <<"api", "csrf-token">>) \/ IsGet(r, <<"csrf-token">>)

\* skip: req.path, which under app.use('/api/') is the path after /api.
skip(r) == Tail(r.path) = <<"api", "admin", "health">>

LimiterApplies(r) == UnderApi(r.path) /\ ~CsrfTokenRoute(r) /\ ~skip(r)

\* express-rate-limit counts the request, then rejects it above max:
\* r.hits is the number of requests of the client in the current window,
\* this one included.
Limited(r) == LimiterApplies(r) /\ r.hits > RateMax

\* A guard that lets every session through.
authenticateAnyone(r) == TRUE

\* authenticate
authenticate(r) == r.session.admin

CsrfProtected(name) ==
  name \in {"confirm", "mark-read", "submit-contact", "submit-booking"}

Layer(r) ==
  IF CsrfTokenRoute(r) THEN "csrf-token"
  ELSE IF Limited(r) THEN "apiLimiter"
  ELSE IF IsGet(r, <<"api", "admin", "health">>) THEN "health"
  ELSE IF IsGet(r, <<"api", "admin", "check-auth">>) THEN "check-auth"
  ELSE IF IsPost(r, <<"api", "admin", "login">>) THEN "login"
  ELSE IF UnderAdmin(r.path) /\ ~authenticate(r) THEN "authenticate"
  ELSE IF IsGet(r, <<"api", "admin", "bookings">>) THEN "bookings"
  ELSE IF IsGet(r, <<"api", "admin", "bookings", ":id">>) THEN "booking"
  ELSE IF IsPost(r, <<"api", "admin", "bookings", ":id", "confirm">>) THEN "confirm"
  ELSE IF IsGet(r, <<"api", "admin", "bookings", "export">>) THEN "export"
  ELSE IF IsGet(r, <<"api", "admin", "messages">>) THEN "messages"
  ELSE IF IsGet(r, <<"api", "admin", "messages", ":id">>) THEN "message"
  ELSE IF IsPost(r, <<"api", "admin", "messages", ":id", "mark-read">>) THEN "mark-read"
  ELSE IF IsPost(r, <<"api", "admin", "logout">>) THEN "logout"
  ELSE IF IsPost(r, <<"api", "submit-contact">>) THEN "submit-contact"
  ELSE IF IsPost(r, <<"submit-booking">>) THEN "submit-booking"
  ELSE IF env.NODE_ENV = "production" /\ r.method = "GET" THEN "index.html"
  ELSE IF UnderApi(r.path) THEN "api-404"
  ELSE "finalhandler"

\* The layer that answers: a csrf-protected route whose token does not
\* verify ends in the error-handling middleware.
Route(r) ==
  IF CsrfProtected(Layer(r)) /\ ~verifyToken(SecretOf(r), r.token)
  THEN "EBADCSRFTOKEN"
  ELSE Layer(r)

\* The request as the handlers see it: with its session restored and the
\* route that answers it.
Request(m, p, c, n, tok, q, b) ==
  [method |-> m, path |-> p, cookie |-> c, hits |-> n, token |-> tok,
   query |-> q, body |-> b, session |-> SessionOf(c),
   route |-> Route([method |-> m, path |-> p, hits |-> n, token |-> tok,
                    session |-> SessionOf(c)])]

Handles(r, name) == r.route = name

Answer(r, st) ==
  /\ req' = r
  /\ res' = st
  /\ mail' = "none"

----------------------------------------------------------------------------
\* The handlers.

\* GET /api/csrf-token, GET /csrf-token
GetCsrfToken(r) ==
  /\ Handles(r, "csrf-token")
  /\ sessions' = WithSecret(r)
  /\ Answer(r, [Status(200) EXCEPT !.csrfToken = csrfToken(r), !.sid = SecretSid(r)])
  /\ UNCHANGED <<bookings, messages, uuidCount, pending, env>>

\* apiLimiter's handler
TooManyRequests(r) ==
  /\ Handles(r, "apiLimiter")
  /\ Answer(r, Cookie(r, Error(429, "Too many requests")))
  /\ UNCHANGED <<bookings, messages, uuidCount, sessions, pending, env>>

\* GET /api/admin/health
Health(r) ==
  /\ Handles(r, "health")
  /\ Answer(r, Cookie(r, Status(200)))
  /\ UNCHANGED <<bookings, messages, uuidCount, sessions, pending, env>>

\* A check that takes any session cookie for the administrator's.
CheckAuthByCookie(r) ==
  /\ Handles(r, "check-auth")
  /\ Answer(r, Cookie(r, [Status(200) EXCEPT !.authenticated = r.cookie # 0]))
  /\ UNCHANGED <<bookings, messages, uuidCount, sessions, pending, env>>

\* GET /api/admin/check-auth
CheckAuth(r) ==
  /\ Handles(r, "check-auth")
  /\ Answer(r, Cookie(r, [Status(200) EXCEPT !.authenticated = r.session.admin]))
  /\ UNCHANGED <<bookings, messages, uuidCount, sessions, pending, env>>

\* A regeneration that leaves the old session in the store.
regenerateKeep(r) ==
  Append(sessions, [live |-> TRUE, admin |-> TRUE, csrfSecret |-> 0])

\* req.session.regenerate: the old session is destroyed, a new id is drawn.
regenerate(r) ==
  Append(IF r.session.id = 0 THEN sessions
         ELSE [sessions EXCEPT ![r.session.id] = DeadSession],
         [live |-> TRUE, admin |-> TRUE, csrfSecret |-> 0])

CredentialsMatch(r) ==
  /\ Field(r.body, "username") = env.ADMIN_USERNAME
  /\ Field(r.body, "password") = env.ADMIN_PASSWORD

\* A login that tells the client which credential was wrong.
LoginTelling(r) ==
  /\ Handles(r, "login")
  /\ IF Field(r.body, "username") # env.ADMIN_USERNAME
     THEN /\ sessions' = sessions
          /\ Answer(r, Cookie(r, Error(401, "Unknown user")))
     ELSE IF Field(r.body, "password") # env.ADMIN_PASSWORD
     THEN /\ sessions' = sessions
          /\ Answer(r, Cookie(r, Error(401, "Wrong password")))
     ELSE /\ sessions' = regenerate(r)
          /\ Answer(r, [Status(200) EXCEPT !.success = TRUE, !.sid = NewSid])
  /\ UNCHANGED <<bookings, messages, uuidCount, pending, env>>

\* POST /api/admin/login
Login(r) ==
  /\ Handles(r, "login")
  /\ IF CredentialsMatch(r)
     THEN /\ sessions' = regenerate(r)
          /\ Answer(r, [Status(200) EXCEPT !.success = TRUE, !.sid = NewSid])
     ELSE /\ sessions' = sessions
          /\ Answer(r, Cookie(r, Error(401, "Invalid credentials")))
  /\ UNCHANGED <<bookings, messages, uuidCount, pending, env>>

\* authenticate's rejection
Unauthenticated(r) ==
  /\ Handles(r, "authenticate")
  /\ Answer(r, Cookie(r, Error(401, "Authentication required")))
  /\ UNCHANGED <<bookings, messages, uuidCount, sessions, pending, env>>

\* The error-handling middleware on csurf's EBADCSRFTOKEN.
BadCsrfToken(r) ==
  /\ Handles(r, "EBADCSRFTOKEN")
  /\ sessions' = WithSecret(r)
  /\ Answer(r, [Error(403, "Invalid CSRF token") EXCEPT
                   !.csrfToken = csrfToken(r), !.sid = SecretSid(r)])
  /\ UNCHANGED <<bookings, messages, uuidCount, pending, env>>

\* Array.prototype.sort with (a, b) => new Date(b.key) - new Date(a.key):
\* a stable sort, latest first.
DateValue(d) ==
  IF d = <<"+7d">> THEN Startup + 7
  ELSE IF d = <<"+14d">> THEN Startup + 14
  ELSE IF d = <<"2025-01-01", " ", "10:00">> THEN 1
  ELSE 0

SortKey(rec) ==
  IF "eventDate" \in DOMAIN rec THEN DateValue(rec.eventDate) ELSE rec.date

RECURSIVE InsertLatest(_, _)
InsertLatest(sorted, rec) ==
  IF sorted = <<>> THEN <<rec>>
  ELSE IF SortKey(rec) > SortKey(Head(sorted)) THEN <<rec>> \o sorted
  ELSE <<Head(sorted)>> \o InsertLatest(Tail(sorted), rec)

\* A sort that leaves the collection as it is stored.
SortNone(coll) == coll

RECURSIVE SortLatestFirst(_)
SortLatestFirst(coll) ==
  IF coll = <<>> THEN <<>>
  ELSE InsertLatest(SortLatestFirst(SubSeq(coll, 1, Len(coll) - 1)), coll[Len(coll)])

\* Array.prototype.filter
RECURSIVE filter(_, _)
filter(coll, keep) ==
  IF coll = <<>> THEN <<>>
  ELSE (IF Head(coll).id \in keep THEN <<Head(coll)>> ELSE <<>>) \o filter(Tail(coll), keep)

toLowerCase(s) ==
  IF s = "PENDING" \/ s = "Pending" THEN "pending"
  ELSE IF s = "CONFIRMED" \/ s = "Confirmed" THEN "confirmed"
  ELSE s

\* GET /api/admin/bookings
ListBookings(r) ==
  /\ Handles(r, "bookings")
  /\ LET status == FieldOr(r.query, "status", "")
         keep == IF status = "" THEN IdsOf(bookings)
                 ELSE {bookings[i].id : i \in
                         {j \in 1..Len(bookings) :
                            toLowerCase(bookings[j].status) = toLowerCase(status)}}
     IN Answer(r, Cookie(r, [Status(200) EXCEPT
                  !.data = SortLatestFirst(filter(bookings, keep))]))
  /\ UNCHANGED <<bookings, messages, uuidCount, sessions, pending, env>>

\* GET /api/admin/bookings/:id
GetBooking(r) ==
  /\ Handles(r, "booking")
  /\ LET index == findIndex(bookings, r.path[4])
     IN Answer(r, Cookie(r, IF index = 0 THEN Error(404, "Booking not found")
                            ELSE [Status(200) EXCEPT !.data = <<bookings[index]>>]))
  /\ UNCHANGED <<bookings, messages, uuidCount, sessions, pending, env>>

\* A merge that puts a confirmed booking back to pending.
confirmedToggle(booking, t) ==
  [booking EXCEPT !.status = IF @ = "confirmed" THEN "pending" ELSE "confirmed",
                  !.updatedAt = t]

\* A merge that restamps the creation time of a booking confirmed before.
confirmedRestamp(booking, t) ==
  [booking EXCEPT !.status = "confirmed", !.updatedAt = t,
                  !.createdAt = IF booking.status = "confirmed" THEN t ELSE @]

\* The field merge of the confirm handler.
confirmed(booking, t) == [booking EXCEPT !.status = "confirmed", !.updatedAt = t]

\* POST /api/admin/bookings/:id/confirm
ConfirmBooking(r, t) ==
  /\ Handles(r, "confirm")
  /\ sessions' = WithSecret(r)
  /\ LET index == findIndex(bookings, r.path[4])
     IN IF index = 0
        THEN /\ bookings' = bookings
             /\ Answer(r, Cookie(r, Error(404, "Booking not found")))
        ELSE /\ bookings' = [bookings EXCEPT ![index] = confirmed(@, t)]
             /\ Answer(r, Cookie(r, [Status(200) EXCEPT
                          !.data = <<confirmed(bookings[index], t)>>,
                          !.csrfToken = csrfToken(r)]))
  /\ UNCHANGED <<messages, uuidCount, pending, env>>

\* GET /api/admin/messages
ListMessages(r) ==
  /\ Handles(r, "messages")
  /\ LET all == 1..Len(messages)
         shown == IF FieldOr(r.query, "includeArchived", "") # "true"
                  THEN {i \in all : ~messages[i].archived} ELSE all
         unread == IF FieldOr(r.query, "unread", "") = "true"
                   THEN {i \in shown : ~messages[i].read} ELSE shown
     IN Answer(r, Cookie(r, [Status(200) EXCEPT
                  !.data = SortLatestFirst(filter(messages, {messages[i].id : i \in unread}))]))
  /\ UNCHANGED <<bookings, messages, uuidCount, sessions, pending, env>>

\* A merge that flips the read flag.
markedReadToggle(message, t) == [message EXCEPT !.read = ~@, !.readAt = t]

\* A merge that archives the message it marks.
markedReadArchive(message, t) ==
  [message EXCEPT !.read = TRUE, !.readAt = t, !.archived = TRUE]

\* The field merge of the two read handlers.
markedRead(message, t) == [message EXCEPT !.read = TRUE, !.readAt = t]

\* A get-by-id that answers with the record as it was stored before the merge.
GetMessageStale(r, t) ==
  /\ Handles(r, "message")
  /\ LET index == findIndex(messages, r.path[4])
     IN IF index = 0
        THEN /\ messages' = messages
             /\ Answer(r, Cookie(r, Error(404, "Message not found")))
        ELSE /\ messages' = [messages EXCEPT ![index] = markedRead(@, t)]
             /\ Answer(r, Cookie(r, [Status(200) EXCEPT !.data = <<messages[index]>>]))
  /\ UNCHANGED <<bookings, uuidCount, sessions, pending, env>>

\* GET /api/admin/messages/:id
GetMessage(r, t) ==
  /\ Handles(r, "message")
  /\ LET index == findIndex(messages, r.path[4])
     IN IF index = 0
        THEN /\ messages' = messages
             /\ Answer(r, Cookie(r, Error(404, "Message not found")))
        ELSE /\ messages' = [messages EXCEPT ![index] = markedRead(@, t)]
             /\ Answer(r, Cookie(r, [Status(200) EXCEPT
                          !.data = <<markedRead(messages[index], t)>>]))
  /\ UNCHANGED <<bookings, uuidCount, sessions, pending, env>>

\* POST /api/admin/messages/:id/mark-read
MarkRead(r, t) ==
  /\ Handles(r, "mark-read")
  /\ sessions' = WithSecret(r)
  /\ LET index == findIndex(messages, r.path[4])
     IN IF index = 0
        THEN /\ messages' = messages
             /\ Answer(r, Cookie(r, Error(404, "Message not found")))
        ELSE /\ messages' = [messages EXCEPT ![index] = markedRead(@, t)]
             /\ Answer(r, Cookie(r, [Status(200) EXCEPT
                          !.success = TRUE,
                          !.data = <<markedRead(messages[index], t)>>,
                          !.csrfToken = csrfToken(r)]))
  /\ UNCHANGED <<bookings, uuidCount, pending, env>>

\* A logout that clears the cookie and leaves the session in the store.
LogoutKeep(r) ==
  /\ Handles(r, "logout")
  /\ sessions' = sessions
  /\ Answer(r, [Status(200) EXCEPT !.success = TRUE])
  /\ UNCHANGED <<bookings, messages, uuidCount, pending, env>>

\* POST /api/admin/logout
Logout(r) ==
  /\ Handles(r, "logout")
  /\ sessions' = [sessions EXCEPT ![r.session.id] = DeadSession]
  /\ Answer(r, [Status(200) EXCEPT !.success = TRUE])
  /\ UNCHANGED <<bookings, messages, uuidCount, pending, env>>

\* The required fields of the two submission handlers.
ContactRequired == {"name", "email", "message"}

BookingRequired ==
  {"name", "email", "phone", "eventType", "date", "package",
   "startTime", "endTime", "location"}

\* A validation that lets every body through.
MissingNothing(body, required) == FALSE

Missing(body, required) == \E f \in required : Falsy(Field(body, f))

\* A message that is stored as already read.
newMessageRead(body, t) ==
  [id |-> uuidv4,
   name |-> trim(Field(body, "name")),
   email |-> trim(Field(body, "email")),
   phone |-> IF Falsy(Field(body, "phone")) THEN <<>> ELSE trim(Field(body, "phone")),
   subject |-> IF Falsy(Field(body, "subject")) THEN <<"General Inquiry">>
               ELSE Field(body, "subject"),
   message |-> trim(Field(body, "message")),
   date |-> t, read |-> TRUE, archived |-> FALSE, readAt |-> NoDate]

newMessage(body, t) ==
  [id |-> uuidv4,
   name |-> trim(Field(body, "name")),
   email |-> trim(Field(body, "email")),
   phone |-> IF Falsy(Field(body, "phone")) THEN <<>> ELSE trim(Field(body, "phone")),
   subject |-> IF Falsy(Field(body, "subject")) THEN <<"General Inquiry">>
               ELSE Field(body, "subject"),
   message |-> trim(Field(body, "message")),
   date |-> t, read |-> FALSE, archived |-> FALSE, readAt |-> NoDate]

newBooking(body, t) ==
  [id |-> uuidv4,
   clientName |-> Field(body, "name"),
   clientEmail |-> Field(body, "email"),
   clientPhone |-> Field(body, "phone"),
   eventType |-> Field(body, "eventType"),
   eventDate |-> Field(body, "date") \o <<" ">> \o Field(body, "startTime"),
   package |-> Field(body, "package"),
   startTime |-> Field(body, "startTime"),
   endTime |-> Field(body, "endTime"),
   location |-> Field(body, "location"),
   additionalNotes |-> IF Falsy(Field(body, "details")) THEN <<>>
                       ELSE Field(body, "details"),
   status |-> "pending", createdAt |-> t, updatedAt |-> NoDate]

\* The handler up to its await: the record is pushed and the mail handed to
\* the relay; the response waits for the relay's answer.
Await(r, id) ==
  /\ pending' = pending \cup {[req |-> r, id |-> id]}
  /\ uuidCount' = uuidCount + 1
  /\ req' = r
  /\ res' = NoResponse
  /\ mail' = "sending"

MissingFields(r, text) ==
  /\ Answer(r, Cookie(r, [Error(400, text) EXCEPT !.csrfToken = csrfToken(r)]))
  /\ UNCHANGED <<bookings, messages, uuidCount, pending>>

\* POST /api/submit-contact
SubmitContact(r, t) ==
  /\ Handles(r, "submit-contact")
  /\ sessions' = WithSecret(r)
  /\ IF Missing(r.body, ContactRequired)
     THEN MissingFields(r, "Missing required fields (name, email, message)")
     ELSE /\ messages' = Append(messages, newMessage(r.body, t))
          /\ bookings' = bookings
          /\ Await(r, uuidv4)
  /\ env' = env

\* POST /submit-booking
SubmitBooking(r, t) ==
  /\ Handles(r, "submit-booking")
  /\ sessions' = WithSecret(r)
  /\ IF Missing(r.body, BookingRequired)
     THEN MissingFields(r, "Missing required fields")
     ELSE /\ bookings' = Append(bookings, newBooking(r.body, t))
          /\ messages' = messages
          /\ Await(r, uuidv4)
  /\ env' = env

\* A handler that lets a failure of the relay fail the request.
EmailResultThrows(p, ok) ==
  /\ p \in pending
  /\ pending' = pending \ {p}
  /\ req' = p.req
  /\ res' = IF ok
            THEN Cookie(p.req, [Status(201) EXCEPT
                   !.success = TRUE, !.id = p.id, !.emailSent = TRUE,
                   !.csrfToken = csrfToken(p.req)])
            ELSE Cookie(p.req, Error(500, "Failed to submit"))
  /\ mail' = IF ok THEN "sent" ELSE "failed"
  /\ UNCHANGED <<bookings, messages, uuidCount, sessions, env>>

\* The record as the submission pushed it: not confirmed, not read.
AsPushed(rec) ==
  IF "status" \in DOMAIN rec
  THEN [rec EXCEPT !.status = "pending", !.updatedAt = NoDate]
  ELSE [rec EXCEPT !.read = FALSE, !.readAt = NoDate]

\* A handler that after its wait stores again the record it pushed before.
EmailResultWritesBack(p, ok) ==
  /\ p \in pending
  /\ pending' = pending \ {p}
  /\ req' = p.req
  /\ res' = Cookie(p.req, [Status(201) EXCEPT
                !.success = TRUE, !.id = p.id, !.emailSent = ok,
                !.csrfToken = csrfToken(p.req)])
  /\ mail' = IF ok THEN "sent" ELSE "failed"
  /\ bookings' = [i \in 1..Len(bookings) |->
                    IF bookings[i].id = p.id THEN AsPushed(bookings[i]) ELSE bookings[i]]
  /\ messages' = [i \in 1..Len(messages) |->
                    IF messages[i].id = p.id THEN AsPushed(messages[i]) ELSE messages[i]]
  /\ UNCHANGED <<uuidCount, sessions, env>>

\* sendConfirmationEmail returns and the handler answers 201: the relay
\* accepted the mail (ok) or sendMail threw, which is caught.
EmailResult(p, ok) ==
  /\ p \in pending
  /\ pending' = pending \ {p}
  /\ req' = p.req
  /\ res' = Cookie(p.req, [Status(201) EXCEPT
                !.success = TRUE, !.id = p.id, !.emailSent = ok,
                !.csrfToken = csrfToken(p.req)])
  /\ mail' = IF ok THEN "sent" ELSE "failed"
  /\ UNCHANGED <<bookings, messages, uuidCount, sessions, env>>

\* app.use('/api', ...): an /api path that no route took.
EndpointNotFound(r) ==
  /\ Handles(r, "api-404")
  /\ Answer(r, Cookie(r, Error(404, "Endpoint not found")))
  /\ UNCHANGED <<bookings, messages, uuidCount, sessions, pending, env>>

\* app.get('*') in production: the frontend's index.html.
IndexHtml(r) ==
  /\ Handles(r, "index.html")
  /\ Answer(r, Cookie(r, [Status(200) EXCEPT !.file = "index.html"]))
  /\ UNCHANGED <<bookings, messages, uuidCount, sessions, pending, env>>

\* Express's own 404 for a path that nothing handled.
FinalHandler(r) ==
  /\ Handles(r, "finalhandler")
  /\ Answer(r, Cookie(r, Error(404, "Cannot " \o r.method)))
  /\ UNCHANGED <<bookings, messages, uuidCount, sessions, pending, env>>

\* The step is over: the response is on the wire, or the handler waits for
\* the mail relay, and the server turns to the next event.
Done ==
  /\ req # NoRequest
  /\ req' = NoRequest
  /\ res' = NoResponse
  /\ mail' = "none"
  /\ UNCHANGED <<server, writes>>

----------------------------------------------------------------------------
\* The requests the model sends.

Cookies == 0..Len(sessions)

\* The tokens a client can hold: made from a secret some session has or had.
Tokens ==
  {s \in 1..Len(sessions) : ~sessions[s].live \/ sessions[s].csrfSecret # 0}

BookingIds == IdsOf(bookings) \cup {"export"}
MessageIds == IdsOf(messages) \cup {"missing"}

ConfirmPaths == {<<"api", "admin", "bookings", i, "confirm">> : i \in BookingIds}
MarkReadPaths == {<<"api", "admin", "messages", i, "mark-read">> : i \in MessageIds}

TokenPaths ==
  ConfirmPaths \cup MarkReadPaths \cup {<<"api", "submit-contact">>, <<"submit-booking">>}

BookingPaths == {<<"api", "admin", "bookings", i>> : i \in BookingIds}
MessagePaths == {<<"api", "admin", "messages", i>> : i \in MessageIds}

Gets ==
  {<<"api", "csrf-token">>, <<"csrf-token">>, <<"api", "admin", "health">>,
   <<"api", "admin", "check-auth">>, <<"api", "admin", "bookings">>,
   <<"api", "admin", "messages">>, <<"api", "admin", "nope">>,
   <<"api", "nope">>, <<"nope">>}
  \cup BookingPaths \cup MessagePaths

Posts ==
  TokenPaths \cup {<<"api", "admin", "login">>, <<"api", "admin", "logout">>,
                   <<"api", "csrf-token">>}

ContactBody ==
  [name |-> <<"Ann">>, email |-> <<"ann@example.com">>, message |-> <<"Hello">>]

BookingBody ==
  [name |-> <<"A">>, email |-> <<"a@b.com">>, phone |-> <<"1">>,
   eventType |-> <<"Portrait">>, date |-> <<"2025-01-01">>,
   package |-> <<"Basic">>, startTime |-> <<"10:00">>, endTime |-> <<"11:00">>,
   location |-> <<"Park">>]

\* A body, and the same body with one required field empty or absent.
Without(body, required) ==
  {body} \cup {[body EXCEPT ![f] = <<>>] : f \in required}
         \cup {[g \in DOMAIN body \ {f} |-> body[g]] : f \in required}

Bodies(p) ==
  IF p = <<"api", "submit-contact">> THEN Without(ContactBody, ContactRequired)
  ELSE IF p = <<"submit-booking">> THEN Without(BookingBody, BookingRequired)
  ELSE {NoBody}

LoginBodies ==
  {[username |-> u, password |-> w] :
     u \in {<<"admin">>, <<"guest">>}, w \in {<<"secret">>, <<"wrong">>}}

\* A request within the rate ceiling that carries no token, query or body.
Plain(m, paths) ==
  {Request(m, p, c, 1, 0, NoQuery, NoBody) : p \in paths, c \in Cookies}

\* req.query of GET /api/admin/messages
Queries == {NoQuery, [unread |-> "true"], [includeArchived |-> "true"]}

\* A request within the ceiling with a query string.
Queried(m, paths) ==
  {Request(m, p, c, 1, 0, q, NoBody) : p \in paths, c \in Cookies, q \in Queries}

\* The same request as the one that takes the client over the ceiling.
Over(m, paths) ==
  {Request(m, p, c, RateMax + 1, 0, NoQuery, NoBody) : p \in paths, c \in Cookies}

\* A request with a token: one that its session does not verify (no body
\* is read), or the token of its session and a body.
TokenRequests(p, c, tok) ==
  {Request("POST", p, c, 1, tok, NoQuery, b) :
     b \in IF tok = SessionOf(c).csrfSecret THEN Bodies(p) ELSE {NoBody}}

\* The paths requested over the ceiling: one for each layer that can answer.
OverGets ==
  {<<"api", "csrf-token">>, <<"csrf-token">>, <<"api", "admin", "health">>,
   <<"api", "admin", "bookings">>, <<"api", "nope">>, <<"nope">>}

OverPosts ==
  {<<"api", "admin", "login">>, <<"api", "admin", "bookings", "u1", "confirm">>,
   <<"api", "submit-contact">>, <<"submit-booking">>}

\* A complete booking submission with the token of its session, sent by a
\* client that has used up the ceiling.
OverSubmissions ==
  {Request("POST", <<"submit-booking">>, c, RateMax + 1, SessionOf(c).csrfSecret,
           NoQuery, BookingBody) :
     c \in {d \in Cookies : SessionOf(d).csrfSecret # 0}}

Tokened(paths) ==
  UNION {TokenRequests(p, c, tok) : p \in paths, c \in Cookies, tok \in Tokens}

LoginRequests ==
  {Request("POST", <<"api", "admin", "login">>, c, 1, 0, NoQuery, b) :
     c \in Cookies, b \in LoginBodies}

\* A session after POST login and GET /api/csrf-token.
AdminSession == [live |-> TRUE, admin |-> TRUE, csrfSecret |-> secretSync(1)]

\* process.env.NODE_ENV
Modes == {"development", "production"}

\* The server as started with the given environment and sessions.
StartedWith(e, ss) ==
  /\ bookings = sampleBookings
  /\ messages = sampleMessages
  /\ uuidCount = Len(sampleBookings) + Len(sampleMessages)
  /\ sessions = ss
  /\ pending = {}
  /\ env = e
  /\ req = NoRequest
  /\ res = NoResponse
  /\ mail = "none"
  /\ writes = 0

\* The server as started with the given mode, the credentials configured.
Started(mode, ss) ==
  StartedWith([NODE_ENV |-> mode, ADMIN_USERNAME |-> <<"admin">>,
               ADMIN_PASSWORD |-> <<"secret">>], ss)

\* The server after startup: in either mode with no session yet, or in
\* development with the administrator logged in and holding a token.
Init ==
  \/ \E mode \in Modes : Started(mode, <<>>)
  \/ Started("development", <<AdminSession>>)

\* The server takes up the next event when the step before is over.
Idle == req = NoRequest

\* The model follows the server for MaxWrites steps that change what it holds.
Budget ==
  /\ writes' = IF server' = server THEN writes ELSE writes + 1
  /\ writes' <= MaxWrites

\* One disjunct per layer that answers, each over the requests that can
\* reach it, and one for the relay's answer to a waiting submission.
Next ==
  \/ /\ Idle
     /\ \E r \in Plain("GET", {<<"api", "csrf-token">>, <<"csrf-token">>})
                    \cup Over("GET", {<<"api", "csrf-token">>, <<"csrf-token">>}) :
            GetCsrfToken(r)
     /\ Budget
  \/ /\ Idle
     /\ \E r \in Over("GET", OverGets) \cup Over("POST", OverPosts) : TooManyRequests(r)
     /\ Budget
  \/ /\ Idle
     /\ \E r \in Plain("GET", {<<"api", "admin", "health">>}) : Health(r)
     /\ Budget
  \/ /\ Idle
     /\ \E r \in Plain("GET", {<<"api", "admin", "check-auth">>}) : CheckAuth(r)
     /\ Budget
  \/ /\ Idle
     /\ \E r \in Plain("POST", {<<"api", "admin", "login">>}) \cup LoginRequests : Login(r)
     /\ Budget
  \/ /\ Idle
     /\ \E r \in Plain("GET", Gets) \cup Plain("POST", Posts) \cup Tokened(TokenPaths) :
            Unauthenticated(r)
     /\ Budget
  \/ /\ Idle
     /\ \E r \in Plain("POST", TokenPaths) \cup Tokened(TokenPaths)
                    \cup Over("POST", {<<"submit-booking">>}) : BadCsrfToken(r)
     /\ Budget
  \/ /\ Idle
     /\ \E r \in Plain("GET", {<<"api", "admin", "bookings">>}) : ListBookings(r)
     /\ Budget
  \/ /\ Idle
     /\ \E r \in Plain("GET", BookingPaths) : GetBooking(r)
     /\ Budget
  \/ /\ Idle
     /\ \E r \in Tokened(ConfirmPaths), t \in Times : ConfirmBooking(r, t)
     /\ Budget
  \/ /\ Idle
     /\ \E r \in Queried("GET", {<<"api", "admin", "messages">>}) : ListMessages(r)
     /\ Budget
  \/ /\ Idle
     /\ \E r \in Plain("GET", MessagePaths), t \in Times : GetMessage(r, t)
     /\ Budget
  \/ /\ Idle
     /\ \E r \in Tokened(MarkReadPaths), t \in Times : MarkRead(r, t)
     /\ Budget
  \/ /\ Idle
     /\ \E r \in Plain("POST", {<<"api", "admin", "logout">>}) : Logout(r)
     /\ Budget
  \/ /\ Idle
     /\ \E r \in Tokened({<<"api", "submit-contact">>}), t \in Times : SubmitContact(r, t)
     /\ Budget
  \/ /\ Idle
     /\ \E r \in Tokened({<<"submit-booking">>}) \cup OverSubmissions, t \in Times :
            SubmitBooking(r, t)
     /\ Budget
  \/ /\ Idle
     /\ \E p \in pending, ok \in BOOLEAN : EmailResult(p, ok)
     /\ Budget
  \/ /\ Idle
     /\ \E r \in Plain("GET", Gets) \cup Plain("POST", Posts) : EndpointNotFound(r)
     /\ Budget
  \/ /\ Idle
     /\ \E r \in Plain("GET", Gets) \cup Over("GET", OverGets) : IndexHtml(r)
     /\ Budget
  \/ /\ Idle
     /\ \E r \in Plain("GET", Gets) \cup Over("GET", OverGets) : FinalHandler(r)
     /\ Budget
  \/ Done

Spec == Init /\ [][Next]_vars

\* The administrator at work while submissions wait for the mail relay: the
\* requests that write or read the collections, with a valid token where the
\* route asks for one.  The writes of the requests are counted against
\* MaxWrites; the relay's answer to a waiting submission is not.
InitInterleaved == Started("development", <<AdminSession>>)

Submissions(p, body) ==
  {Request("POST", p, c, 1, SessionOf(c).csrfSecret, NoQuery, body) :
     c \in {d \in Cookies : SessionOf(d).csrfSecret # 0}}

NextInterleaved ==
  \/ /\ Idle
     /\ \E r \in Plain("GET", {<<"api", "admin", "bookings">>}) : ListBookings(r)
     /\ Budget
  \/ /\ Idle
     /\ \E r \in Plain("GET", BookingPaths) : GetBooking(r)
     /\ Budget
  \/ /\ Idle
     /\ \E r \in Tokened(ConfirmPaths), t \in Times : ConfirmBooking(r, t)
     /\ Budget
  \/ /\ Idle
     /\ \E r \in Plain("GET", {<<"api", "admin", "messages">>}) : ListMessages(r)
     /\ Budget
  \/ /\ Idle
     /\ \E r \in Plain("GET", MessagePaths), t \in Times : GetMessage(r, t)
     /\ Budget
  \/ /\ Idle
     /\ \E r \in Tokened(MarkReadPaths), t \in Times : MarkRead(r, t)
     /\ Budget
  \/ /\ Idle
     /\ \E r \in Submissions(<<"api", "submit-contact">>, ContactBody), t \in Times :
            SubmitContact(r, t)
     /\ Budget
  \/ /\ Idle
     /\ \E r \in Submissions(<<"submit-booking">>, BookingBody), t \in Times :
            SubmitBooking(r, t)
     /\ Budget
  \/ /\ Idle
     /\ \E p \in pending, ok \in BOOLEAN : EmailResult(p, ok)
     /\ writes' = writes
  \/ Done

SpecInterleaved == InitInterleaved /\ [][NextInterleaved]_vars

\* Logins under every configuration of the credentials: each of
\* ADMIN_USERNAME and ADMIN_PASSWORD is set in the environment or is not, and
\* a login body carries each of username and password or omits it.
Environments ==
  {[NODE_ENV |-> "development", ADMIN_USERNAME |-> u, ADMIN_PASSWORD |-> w] :
     u \in {<<"admin">>, Undefined}, w \in {<<"secret">>, Undefined}}

InitCredentials == \E e \in Environments : StartedWith(e, <<>>)

PartialLogins ==
  {Request("POST", <<"api", "admin", "login">>, c, 1, 0, NoQuery, b) :
     c \in Cookies,
     b \in {[username |-> <<"admin">>], [password |-> <<"secret">>],
            [username |-> <<"guest">>], [password |-> <<"wrong">>]}}

NextCredentials ==
  \/ /\ Idle
     /\ \E r \in Plain("POST", {<<"api", "admin", "login">>}) \cup LoginRequests
                    \cup PartialLogins : Login(r)
     /\ Budget
  \/ /\ Idle
     /\ \E r \in Plain("GET", {<<"api", "admin", "check-auth">>}) : CheckAuth(r)
     /\ Budget
  \/ /\ Idle
     /\ \E r \in Plain("GET", {<<"api", "admin", "bookings">>}) : Unauthenticated(r)
     /\ Budget
  \/ /\ Idle
     /\ \E r \in Plain("GET", {<<"api", "admin", "bookings">>}) : ListBookings(r)
     /\ Budget
  \/ /\ Idle
     /\ \E r \in Plain("POST", {<<"api", "admin", "logout">>}) : Logout(r)
     /\ Budget
  \/ Done

SpecCredentials == InitCredentials /\ [][NextCredentials]_vars

\* Contact submissions whose required fields are there, empty, absent or
\* nothing but whitespace, from a visitor who fetches a token first or from
\* the administrator's session.
Blanked(body, required) ==
  {[body EXCEPT ![f] = <<Blank>>] : f \in required}
    \cup {[body EXCEPT ![f] = <<Blank, Blank>>] : f \in required}

InitContact ==
  \E ss \in {<<>>, <<AdminSession>>} : Started("development", ss)

NextContact ==
  \/ /\ Idle
     /\ \E r \in Plain("GET", {<<"api", "csrf-token">>, <<"csrf-token">>}) : GetCsrfToken(r)
     /\ Budget
  \/ /\ Idle
     /\ \E r \in UNION {Submissions(<<"api", "submit-contact">>, b) :
                           b \in Without(ContactBody, ContactRequired)
                                   \cup Blanked(ContactBody, ContactRequired)},
           t \in Times : SubmitContact(r, t)
     /\ Budget
  \/ /\ Idle
     /\ \E p \in pending, ok \in BOOLEAN : EmailResult(p, ok)
     /\ writes' = writes
  \/ /\ Idle
     /\ \E r \in Plain("GET", {<<"api", "admin", "messages">>}) : ListMessages(r)
     /\ Budget
  \/ Done

SpecContact == InitContact /\ [][NextContact]_vars

----------------------------------------------------------------------------
\* The vocabulary of the properties.  Each is stated on the request as it
\* arrived (req', with the session it restored), the answer (res') and the
\* collections before and after the step.

LoginPath == <<"api", "admin", "login">>
HealthPath == <<"api", "admin", "health">>
CheckAuthPath == <<"api", "admin", "check-auth">>
ContactPath == <<"api", "submit-contact">>
BookingPath == <<"submit-booking">>

\* A path under /api/admin other than login, health and check-auth.
Guarded(r) == UnderAdmin(r.path) /\ r.path \notin {LoginPath, HealthPath, CheckAuthPath}

IsConfirm(r) == r.method = "POST" /\ Match(r.path, <<"api", "admin", "bookings", ":id", "confirm">>)

IsMarkRead(r) == r.method = "POST" /\ Match(r.path, <<"api", "admin", "messages", ":id", "mark-read">>)

IsSubmission(r) == r.method = "POST" /\ r.path \in {ContactPath, BookingPath}

StateChanging(r) == IsConfirm(r) \/ IsMarkRead(r) \/ IsSubmission(r)

\* The request carries a token made from the secret of its session.
ValidToken(r) == r.token # 0 /\ r.token = r.session.csrfSecret

\* The rate limiter let the request through.
Admitted(r) == ~(UnderApi(r.path) /\ r.hits > RateMax)

\* A step in which a request arrives, and one in which the relay answers.
Arrives == req' # NoRequest /\ mail' \in {"none", "sending"}
Relayed == req' # NoRequest /\ mail' \in {"sent", "failed"}

RequiredOf(r) == IF r.path = ContactPath THEN ContactRequired ELSE BookingRequired

\* Every required field is there and not empty.
Complete(r) ==
  \A f \in RequiredOf(r) : f \in DOMAIN r.body /\ r.body[f] # <<>>

CollectionOf(r, st) == IF r.path = ContactPath THEN st[2] ELSE st[1]

Last(coll) == coll[Len(coll)]

\* C1: a request to a path under /api/admin other than login, health and
\* check-auth whose session has no admin flag, once the rate limiter has let
\* it through, is answered 401 by the guard: no handler runs, no record is
\* returned and neither collection changes.
C1_GuardRejects ==
  [][(Arrives /\ Guarded(req') /\ ~req'.session.admin /\ Admitted(req'))
       => /\ res'.status = 401
          /\ req'.route = "authenticate"
          /\ res'.data = <<>> /\ res'.file = ""
          /\ store' = store]_vars

\* C1 happens: a booking confirm with a token valid for its session, in a
\* session without the admin flag, was answered 401 and confirmed nothing.
C1_Witness ==
  /\ req.path = <<"api", "admin", "bookings", "u1", "confirm">>
  /\ ValidToken(req) /\ ~req.session.admin
  /\ res.status = 401
  /\ bookings[1].status = "pending"

\* C2 as stated: every state-changing POST without a token valid for its
\* session, in any session state, is answered 403 and leaves both
\* collections as they were.
C2_Original ==
  [][(Arrives /\ StateChanging(req') /\ ~ValidToken(req') /\ Admitted(req'))
       => (res'.status = 403 /\ store' = store)]_vars

\* C2: a state-changing POST without a token valid for its session leaves
\* both collections as they were; it is answered 403 with a fresh token,
\* except a booking confirm or message mark-read in a session without the
\* admin flag, which the guard answers 401 before the token is looked at.
C2_InvalidTokenRejected ==
  [][(Arrives /\ StateChanging(req') /\ ~ValidToken(req') /\ Admitted(req'))
       => /\ store' = store
          /\ IF Guarded(req') /\ ~req'.session.admin
             THEN res'.status = 401
             ELSE res'.status = 403 /\ res'.csrfToken # 0]_vars

\* C2 happens: a booking confirm without a token, in an admin session, was
\* answered 403 and confirmed nothing.
C2_Witness ==
  /\ req.path = <<"api", "admin", "bookings", "u1", "confirm">>
  /\ req.session.admin /\ req.token = 0
  /\ res.status = 403
  /\ bookings[1].status = "pending"

\* A submission with a valid token and every required field.
Submitted == Arrives /\ IsSubmission(req') /\ ValidToken(req') /\ Admitted(req')

\* C3: a contact or booking submission with every required field and a valid
\* token appends exactly one record at the end of its collection (a message
\* unread and not archived, a booking pending) under an identifier no stored
\* record has, changes no other record and nothing in the other collection,
\* and its answer is 201 with the identifier of the record it appended.
C3_SubmissionAppends ==
  [][/\ (Submitted /\ Complete(req'))
          => LET before == CollectionOf(req', store)
                 after == CollectionOf(req', store')
             IN /\ Len(after) = Len(before) + 1
                /\ SubSeq(after, 1, Len(before)) = before
                /\ Last(after).id \notin IdsOf(bookings) \cup IdsOf(messages)
                /\ IF req'.path = ContactPath
                   THEN /\ Last(after).read = FALSE
                        /\ Last(after).archived = FALSE
                        /\ bookings' = bookings
                   ELSE /\ Last(after).status = "pending"
                        /\ messages' = messages
                /\ [req |-> req', id |-> Last(after).id] \in pending' \ pending
     /\ Relayed
          => /\ res'.status = 201
             /\ [req |-> req', id |-> res'.id] \in pending \ pending'
             /\ res'.id \in IdsOf(CollectionOf(req', store'))
             /\ store' = store]_vars

\* C3 happens: a booking submission was answered 201 with the identifier of
\* the pending booking now at the end of the collection.
C3_Witness ==
  /\ req.path = BookingPath /\ res.status = 201
  /\ Len(bookings) = Len(sampleBookings) + 1
  /\ Last(bookings).id = res.id /\ Last(bookings).status = "pending"
  /\ messages = sampleMessages

\* C4: a contact or booking submission with a valid token in which a
\* required field is missing or empty is answered 400 with a token valid for
\* its session in the body, appends no record and hands no mail to the relay.
C4_MissingFieldRejected ==
  [][(Submitted /\ ~Complete(req'))
       => /\ res'.status = 400
          /\ res'.csrfToken # 0 /\ res'.csrfToken = req'.session.csrfSecret
          /\ store' = store
          /\ mail' = "none" /\ pending' = pending]_vars

\* C4 happens: a booking submission without a location was answered 400.
C4_Witness ==
  /\ req.path = BookingPath /\ ValidToken(req)
  /\ "location" \notin DOMAIN req.body /\ "name" \in DOMAIN req.body
  /\ res.status = 400 /\ res.csrfToken # 0
  /\ bookings = sampleBookings

\* C5: when the mail is handed to the relay the record is already in its
\* collection; whether the relay then succeeds or fails, the answer is 201
\* with success=true, emailSent is the relay's outcome and nothing else in
\* the answer depends on it, and both collections stay as they were, the
\* appended record included.
C5_EmailNonFatal ==
  [][/\ mail' = "sending"
          => \E p \in pending' \ pending :
                p.req = req' /\ p.id \in IdsOf(CollectionOf(req', store'))
     /\ Relayed
          => /\ res'.status = 201 /\ res'.success
             /\ res'.emailSent = (mail' = "sent")
             /\ [res' EXCEPT !.emailSent = FALSE]
                  = [NoResponse EXCEPT !.status = 201, !.success = TRUE,
                                       !.id = res'.id,
                                       !.csrfToken = req'.session.csrfSecret,
                                       !.sid = req'.session.id]
             /\ store' = store
             /\ res'.id \in IdsOf(CollectionOf(req', store'))]_vars

\* C5 happens: the relay failed, and the contact submission was answered 201
\* with emailSent=false while its message is at the end of the collection.
C5_Witness ==
  /\ req.path = ContactPath /\ mail = "failed"
  /\ res.status = 201 /\ res.success /\ ~res.emailSent
  /\ Len(messages) = Len(sampleMessages) + 1
  /\ Last(messages).id = res.id

\* The record of a collection that has the identifier, as a set.
WithId(coll, id) == {coll[i] : i \in {j \in 1..Len(coll) : coll[j].id = id}}

\* C6: every stored booking is pending or confirmed, and a step never takes
\* a confirmed booking away from confirmed.
C6_StatusForward ==
  [][/\ \A i \in 1..Len(bookings') : bookings'[i].status \in {"pending", "confirmed"}
     /\ \A i \in 1..Len(bookings) :
          bookings[i].status = "confirmed"
            => \A b \in WithId(bookings', bookings[i].id) : b.status = "confirmed"]_vars

\* C6 happens: the booking that started pending is confirmed, and a confirm
\* request has just been answered for the booking that started confirmed.
C6_Witness ==
  /\ bookings[1].status = "confirmed" /\ bookings[1].updatedAt # NoDate
  /\ req.path = <<"api", "admin", "bookings", "u2", "confirm">>
  /\ res.status = 200 /\ bookings[2].status = "confirmed"

\* An authenticated confirm with a valid token for a stored booking.
Confirms(id) ==
  /\ Arrives /\ IsConfirm(req') /\ req'.path[4] = id
  /\ req'.session.admin /\ ValidToken(req') /\ Admitted(req')

\* C7: every authenticated confirm with a valid token of a stored booking
\* succeeds and reports the stored record with status=confirmed; on a
\* booking that is confirmed already the record it stores differs from the
\* one it found only in the update timestamp.
C7_ConfirmIdempotent ==
  [][\A i \in 1..Len(bookings) :
       Confirms(bookings[i].id)
         => /\ res'.status = 200
            /\ res'.data = <<bookings'[i]>>
            /\ bookings'[i].status = "confirmed"
            /\ bookings[i].status = "confirmed"
                 => bookings'[i] = [bookings[i] EXCEPT !.updatedAt = bookings'[i].updatedAt]]_vars

\* C7 happens: the first booking, pending at startup, has been confirmed
\* twice at different times and nothing else has changed the server.
C7_Witness ==
  /\ req.path = <<"api", "admin", "bookings", "u1", "confirm">>
  /\ res.status = 200 /\ res.data = <<bookings[1]>>
  /\ bookings[1].status = "confirmed"
  /\ writes = 2
  /\ <<bookings[2], messages, uuidCount, pending>>
       = <<sampleBookings[2], sampleMessages, Len(sampleBookings) + Len(sampleMessages), {}>>
  /\ sessions = <<AdminSession>>

\* C8: a message that is read stays read in every later state.
C8_ReadMonotonic ==
  [][\A i \in 1..Len(messages) :
       messages[i].read
         => /\ WithId(messages', messages[i].id) # {}
            /\ \A m \in WithId(messages', messages[i].id) : m.read]_vars

\* C8 happens: the message that started unread is read, and the message
\* that started read has just been marked read again.
C8_Witness ==
  /\ messages[1].read /\ messages[1].readAt # NoDate
  /\ req.path = <<"api", "admin", "messages", "u4", "mark-read">>
  /\ res.status = 200 /\ messages[2].read

Distinct(coll) ==
  \A i, j \in 1..Len(coll) : i # j => coll[i].id # coll[j].id

\* C9: the identifiers within the booking collection are pairwise distinct,
\* likewise within the message collection, and a step leaves every stored
\* record its identifier.
C9_IdentifiersUnique ==
  [][/\ Distinct(bookings) /\ Distinct(messages)
     /\ Distinct(bookings') /\ Distinct(messages')
     /\ \A i \in 1..Len(bookings) : i <= Len(bookings') /\ bookings'[i].id = bookings[i].id
     /\ \A i \in 1..Len(messages) : i <= Len(messages') /\ messages'[i].id = messages[i].id]_vars

\* C9 happens: a message was appended to the sample data and then updated
\* by a read.
C9_Witness ==
  /\ Len(messages) = Len(sampleMessages) + 1
  /\ Last(messages).read /\ Last(messages).readAt # NoDate
  /\ req.route \in {"message", "mark-read"} /\ res.status = 200

\* C10: a step removes no record from either collection and keeps the
\* stored records in their order, and no message is ever archived.
C10_AppendOnly ==
  [][/\ Len(bookings') >= Len(bookings)
     /\ Len(messages') >= Len(messages)
     /\ [i \in 1..Len(bookings) |-> bookings'[i].id] = [i \in 1..Len(bookings) |-> bookings[i].id]
     /\ [i \in 1..Len(messages) |-> messages'[i].id] = [i \in 1..Len(messages) |-> messages[i].id]
     /\ \A i \in 1..Len(messages') : ~messages'[i].archived]_vars

\* C10 happens: a booking was appended behind the sample bookings and the
\* first of them updated in place.
C10_Witness ==
  /\ Len(bookings) = Len(sampleBookings) + 1
  /\ bookings[1] = confirmed(sampleBookings[1], bookings[1].updatedAt)
  /\ bookings[1].updatedAt # NoDate
  /\ bookings[2] = sampleBookings[2]

\* A login request, and one with the configured username and password.
IsLogin(r) == r.method = "POST" /\ r.path = LoginPath

RightCredentials(r) ==
  /\ "username" \in DOMAIN r.body /\ r.body.username = env.ADMIN_USERNAME
  /\ "password" \in DOMAIN r.body /\ r.body.password = env.ADMIN_PASSWORD

\* The identifier resolves to no session: it was destroyed or regenerated.
Stale(sid) == sid \in 1..Len(sessions) /\ ~sessions[sid].live

\* C11: a successful login puts the admin flag on a session under an
\* identifier never used before and destroys the session the client
\* presented; a destroyed identifier never resolves again, and a request
\* that presents one to a guarded route is answered 401.
C11_LoginRegenerates ==
  [][/\ (Arrives /\ IsLogin(req') /\ RightCredentials(req') /\ Admitted(req'))
          => /\ res'.status = 200
             /\ res'.sid \notin 1..Len(sessions)
             /\ res'.sid \in 1..Len(sessions')
             /\ sessions'[res'.sid].live /\ sessions'[res'.sid].admin
             /\ req'.session.id # 0 => ~sessions'[req'.session.id].live
     /\ \A sid \in 1..Len(sessions) : Stale(sid) => ~sessions'[sid].live
     /\ (Arrives /\ Guarded(req') /\ Stale(req'.cookie) /\ Admitted(req'))
          => res'.status = 401]_vars

\* C11 happens: the one change to the server was a login that presented
\* session 1, and a request presenting 1 to a guarded route got 401.
C11_Witness ==
  /\ writes = 1 /\ Len(sessions) = 2
  /\ ~sessions[1].live /\ sessions[2].live /\ sessions[2].admin
  /\ req.cookie = 1 /\ req.path = <<"api", "admin", "bookings">>
  /\ res.status = 401

IsLogout(r) == r.method = "POST" /\ r.path = <<"api", "admin", "logout">>

\* C13: a logout in an admin session is answered with success and destroys
\* the session in the store; from then on the session stays destroyed, and
\* every request that presents its identifier to a guarded route is stopped
\* by the guard with 401 and changes nothing.
C13_LogoutDestroys ==
  [][/\ (Arrives /\ IsLogout(req') /\ req'.session.admin /\ Admitted(req'))
          => /\ res'.status = 200 /\ res'.success
             /\ ~sessions'[req'.cookie].live
             /\ res'.sid = 0
     /\ \A sid \in 1..Len(sessions) : ~sessions[sid].live => sessions'[sid] = sessions[sid]
     /\ (Arrives /\ Guarded(req') /\ Stale(req'.cookie) /\ Admitted(req'))
          => /\ res'.status = 401 /\ req'.route = "authenticate"
             /\ server' = server]_vars

\* C13 happens: the one change to the server was the logout of session 1,
\* and a later request presenting 1 to a message route was answered 401.
C13_Witness ==
  /\ writes = 1 /\ sessions = <<DeadSession>>
  /\ req.cookie = 1 /\ req.path = <<"api", "admin", "messages", "u3">>
  /\ res.status = 401
  /\ messages = sampleMessages

\* The step answers a request that got as far as a CSRF-validated endpoint:
\* past the rate limiter and, on an admin route, past the guard.
AnswersValidated ==
  /\ req' # NoRequest /\ res' # NoResponse
  /\ StateChanging(req') /\ Admitted(req')
  /\ Guarded(req') => req'.session.admin

\* C14 as stated: every answer of a CSRF-validated POST endpoint, whatever
\* the outcome, has a CSRF token in its body.
C14_EveryAnswerHasToken ==
  [][AnswersValidated => res'.csrfToken # 0]_vars

\* The step answers 403 for the token of a state-changing POST.
Rejected403 ==
  /\ Arrives /\ StateChanging(req') /\ ~ValidToken(req') /\ Admitted(req')
  /\ Guarded(req') => req'.session.admin

\* C15: the 403 for an invalid or missing token carries a token made from
\* the secret its session has after the answer; a session keeps its secret
\* as long as it lives, so the token stays valid with no call to a
\* csrf-token endpoint; and a state-changing POST that presents a token
\* made from its session's secret is not rejected for its token.
C15_ReplacementTokenValid ==
  [][/\ Rejected403
          => /\ res'.status = 403
             /\ res'.sid \in 1..Len(sessions') /\ sessions'[res'.sid].live
             /\ req'.session.id # 0 => res'.sid = req'.session.id
             /\ res'.csrfToken # 0
             /\ res'.csrfToken = sessions'[res'.sid].csrfSecret
     /\ \A sid \in 1..Len(sessions) :
          (sessions[sid].csrfSecret # 0 /\ sessions'[sid].live)
             => sessions'[sid].csrfSecret = sessions[sid].csrfSecret
     /\ (Arrives /\ StateChanging(req') /\ ValidToken(req') /\ Admitted(req')
           /\ (Guarded(req') => req'.session.admin))
          => /\ res'.status # 403
             /\ req'.route \in {"confirm", "mark-read", "submit-contact", "submit-booking"}]_vars

\* C15 happens: the first request, a contact submission without session or
\* token, created session 1; the submission sent again in session 1 with
\* the session's token has passed validation and stored its message.
C15_Witness ==
  /\ writes = 2 /\ Len(sessions) = 1 /\ ~sessions[1].admin
  /\ req.path = ContactPath /\ req.cookie = 1 /\ ValidToken(req)
  /\ mail = "sending"
  /\ Len(messages) = Len(sampleMessages) + 1

\* The client has used up the ceiling of its window.
OverCeiling(r) == r.hits > RateMax

IsHealth(r) == r.method = "GET" /\ r.path = HealthPath

\* C16 as stated: a request of a client that has used up the ceiling, on
\* any route but the health check, is answered 429 by the limiter, reaches
\* no route handler and changes neither collection.
C16_EveryRouteLimited ==
  [][(Arrives /\ OverCeiling(req') /\ ~IsHealth(req'))
       => /\ res'.status = 429
          /\ req'.route = "apiLimiter"
          /\ store' = store]_vars

\* C16 fails on a route outside the limiter: a booking submission of a
\* client over the ceiling has reached its handler and stored a booking.
C16_Unlimited ==
  /\ req.path = BookingPath /\ OverCeiling(req)
  /\ req.route = "submit-booking" /\ mail = "sending"
  /\ Len(bookings) = Len(sampleBookings) + 1

\* C17 as stated: the health check is never answered 429, however many
\* requests its client has made in the window; it is always answered 200.
C17_HealthExempt ==
  [][(Arrives /\ IsHealth(req')) => (res'.status # 429 /\ res'.status = 200)]_vars

\* C17 fails: a health check of a client over the ceiling was stopped by
\* the limiter with 429.
C17_HealthLimited ==
  /\ IsHealth(req) /\ OverCeiling(req)
  /\ req.route = "apiLimiter" /\ res.status = 429

ExportPath == <<"api", "admin", "bookings", "export">>

\* C18 as stated, for an export without an id: an admin's GET
\* /api/admin/bookings/export is answered with the whole booking collection
\* as a named download.
C18_ExportReturns ==
  [][(Arrives /\ req'.method = "GET" /\ req'.path = ExportPath
        /\ req'.session.admin /\ Admitted(req'))
       => /\ res'.status = 200
          /\ res'.data = bookings
          /\ res'.file # ""]_vars

\* C18 fails: an admin's export request was taken by the route for one
\* booking, with 'export' as the id, and answered 404.
C18_ExportShadowed ==
  /\ req.method = "GET" /\ req.path = ExportPath /\ req.session.admin
  /\ req.route = "booking"
  /\ res.status = 404 /\ res.error = "Booking not found"

\* A request under /api that no registered route matches.
NoRoute(r) ==
  \/ r.path \in {<<"api", "nope">>, <<"api", "admin", "nope">>}
  \/ r.method = "POST" /\ r.path = <<"api", "csrf-token">>

\* C19: every request under /api that matches no registered route, whatever
\* its method, its session and the mode, and that the rate limiter admitted,
\* is answered 404 'Endpoint not found'.
C19_UnmatchedApi404 ==
  [][(Arrives /\ NoRoute(req') /\ Admitted(req'))
       => (res'.status = 404 /\ res'.error = "Endpoint not found")]_vars

\* C19: in production a GET of an unmatched /api path is answered with the
\* frontend's index.html.
C19_IndexServed ==
  /\ env.NODE_ENV = "production"
  /\ req # NoRequest
  /\ req.method = "GET"
  /\ req.path = <<"api", "nope">>
  /\ res.status = 200
  /\ res.file = "index.html"

MessagesPath == <<"api", "admin", "messages">>

\* The administrator's listing of the messages with query q arrives.
Lists(q) ==
  /\ Arrives
  /\ req'.method = "GET"
  /\ req'.path = MessagesPath
  /\ req'.query = q
  /\ req'.session.admin
  /\ Admitted(req')

\* The stored messages a listing with query q is to return.
Listed(q) ==
  {i \in 1..Len(messages) :
     /\ ~messages[i].archived
     /\ (q = [unread |-> "true"] => ~messages[i].read)}

\* C20: the administrator's listing of the messages, admitted by the rate
\* limiter, returns with no query exactly the stored messages that are not
\* archived, and with unread=true those of them that are not read, each
\* once and latest received first; the stored messages and their order stay
\* as they were.
C20_ListingFilteredSorted ==
  [][\A q \in {NoQuery, [unread |-> "true"]} :
       Lists(q) =>
         /\ res'.status = 200
         /\ Len(res'.data) = Cardinality(Listed(q))
         /\ {res'.data[j] : j \in 1..Len(res'.data)} = {messages[i] : i \in Listed(q)}
         /\ \A j, k \in 1..Len(res'.data) :
              j < k => res'.data[j].date >= res'.data[k].date
         /\ store' = store]_vars

\* C20: a listing with unread=true of three stored messages returned the two
\* unread ones, the later one first although it is stored last.
C20_Witness ==
  /\ req # NoRequest
  /\ req.path = MessagesPath
  /\ req.query = [unread |-> "true"]
  /\ res.status = 200
  /\ Len(messages) = 3
  /\ Len(res.data) = 2
  /\ res.data[1] = messages[3]
  /\ res.data[2] = messages[1]
  /\ res.data[1].date > res.data[2].date

IsGetMessage(r) == r.method = "GET" /\ Match(r.path, <<"api", "admin", "messages", ":id">>)

\* The fields of a message other than the two the read merge sets.
Unread(message) == [message EXCEPT !.read = FALSE, !.readAt = NoDate]

\* C21: an administrator's GET /api/admin/messages/:id with the id of a
\* stored message and no CSRF token, admitted by the rate limiter, is
\* answered 200 with the record as it is stored afterwards: read, with a read
\* timestamp and its other fields as before; no other message and no booking
\* changes.
C21_GetMarksRead ==
  [][\A i \in 1..Len(messages) :
       (/\ Arrives /\ IsGetMessage(req') /\ req'.path[4] = messages[i].id
        /\ req'.token = 0 /\ req'.session.admin /\ Admitted(req'))
         => /\ res'.status = 200
            /\ Len(messages') = Len(messages)
            /\ messages'[i].read
            /\ messages'[i].readAt # NoDate
            /\ Unread(messages'[i]) = Unread(messages[i])
            /\ res'.data = <<messages'[i]>>
            /\ \A j \in 1..Len(messages) : j # i => messages'[j] = messages[j]
            /\ bookings' = bookings]_vars

\* C21 happens: the unread sample message was fetched without a token and
\* is now stored and returned as read, the other sample message as it was.
C21_Witness ==
  /\ req # NoRequest
  /\ req.method = "GET"
  /\ req.path = <<"api", "admin", "messages", "u3">>
  /\ req.token = 0
  /\ res.status = 200
  /\ ~sampleMessages[1].read
  /\ messages[1].read /\ messages[1].readAt # NoDate
  /\ res.data = <<messages[1]>>
  /\ messages[2] = sampleMessages[2]

IsGetBooking(r) == r.method = "GET" /\ Match(r.path, <<"api", "admin", "bookings", ":id">>)

\* An administrator's request, admitted by the rate limiter and with a valid
\* token where its route asks for one, that names a booking by id.
NamesBooking(r) ==
  /\ r.session.admin
  /\ Admitted(r)
  /\ IsGetBooking(r) \/ (IsConfirm(r) /\ ValidToken(r))

\* The same for a message.
NamesMessage(r) ==
  /\ r.session.admin
  /\ Admitted(r)
  /\ IsGetMessage(r) \/ (IsMarkRead(r) /\ ValidToken(r))

\* C22: an administrator's get-booking-by-id, confirm-booking,
\* get-message-by-id or mark-read (the two POSTs with a valid token, all
\* admitted by the rate limiter) whose id no stored record has is answered
\* 404 with the error 'Booking not found' or 'Message not found', and both
\* collections stay as they were.
C22_UnknownIdNotFound ==
  [][/\ (Arrives /\ NamesBooking(req') /\ req'.path[4] \notin IdsOf(bookings))
          => (res'.status = 404 /\ res'.error = "Booking not found"
              /\ res'.data = <<>> /\ store' = store)
     /\ (Arrives /\ NamesMessage(req') /\ req'.path[4] \notin IdsOf(messages))
          => (res'.status = 404 /\ res'.error = "Message not found"
              /\ res'.data = <<>> /\ store' = store)]_vars

\* C22 happens: a mark-read with a valid token for an id that no message
\* has was answered 404.
C22_Witness ==
  /\ req # NoRequest
  /\ req.session.admin
  /\ req.path = <<"api", "admin", "messages", "missing", "mark-read">>
  /\ ValidToken(req)
  /\ "missing" \notin IdsOf(messages)
  /\ res.status = 404
  /\ res.error = "Message not found"
  /\ messages = sampleMessages

\* The query operations: check-auth, health, the two csrf-token GETs, list
\* bookings, get booking by id, export and list messages.
IsQuery(r) ==
  /\ r.method = "GET"
  /\ \/ r.path \in {CheckAuthPath, HealthPath, <<"api", "csrf-token">>, <<"csrf-token">>,
                     <<"api", "admin", "bookings">>, ExportPath, MessagesPath}
     \/ IsGetBooking(r)

\* C23: a query operation, whatever its answer, changes neither collection
\* and no session's admin flag, and a session it creates has none; check-auth,
\* admitted by the rate limiter, reports authenticated as the admin flag of
\* the session of the request.
C23_QueriesChangeNothing ==
  [][(Arrives /\ IsQuery(req'))
       => /\ store' = store
          /\ Len(sessions') >= Len(sessions)
          /\ \A s \in 1..Len(sessions) : sessions'[s].admin = sessions[s].admin
          /\ \A s \in (Len(sessions) + 1)..Len(sessions') : ~sessions'[s].admin
          /\ (req'.path = CheckAuthPath /\ Admitted(req'))
               => (res'.status = 200 /\ res'.authenticated = req'.session.admin)]_vars

\* C23 happens: check-auth answered the administrator's session, which
\* holds a token secret from a csrf-token GET, with authenticated true, and
\* the session still has the flag.
C23_Witness ==
  /\ req # NoRequest
  /\ req.path = CheckAuthPath
  /\ req.session.admin
  /\ req.session.csrfSecret # 0
  /\ res.status = 200
  /\ res.authenticated
  /\ sessions[req.session.id].admin

\* An administrator's read of a stored message, by either route.
ReadsMessage(id) ==
  /\ Arrives
  /\ IsGetMessage(req') \/ (IsMarkRead(req') /\ ValidToken(req'))
  /\ req'.path[4] = id
  /\ req'.session.admin /\ Admitted(req')

\* An administrator's listing or get-by-id, with no query.
AdminGets(path) ==
  /\ Arrives /\ req'.method = "GET" /\ req'.path = path /\ req'.query = NoQuery
  /\ req'.session.admin /\ Admitted(req')

\* C24: whatever requests are answered while submissions wait for the mail
\* relay, no step answers with a conflict or a server error; a confirm, a
\* read and a complete submission (of an administrator where the route is
\* guarded, with a valid token where the route asks for one, admitted by the
\* rate limiter) each succeed and store exactly their own write on top of
\* the collections as they are, so the last write to a record is the one
\* stored; the answer to a submission after its wait writes nothing; and the
\* record of a waiting submission is in the administrator's listing and is
\* returned by id.
C24_InterleavedWrites ==
  [][/\ res'.status \notin {409, 500}
     /\ \A i \in 1..Len(bookings) :
          Confirms(bookings[i].id)
            => /\ res'.status = 200
               /\ res'.data = <<bookings'[i]>>
               /\ bookings' = [bookings EXCEPT ![i] =
                                 [@ EXCEPT !.status = "confirmed",
                                           !.updatedAt = res'.data[1].updatedAt]]
               /\ messages' = messages
     /\ \A i \in 1..Len(messages) :
          ReadsMessage(messages[i].id)
            => /\ res'.status = 200
               /\ res'.data = <<messages'[i]>>
               /\ messages' = [messages EXCEPT ![i] =
                                 [@ EXCEPT !.read = TRUE,
                                           !.readAt = res'.data[1].readAt]]
               /\ bookings' = bookings
     /\ (Submitted /\ Complete(req'))
          => /\ mail' = "sending"
             /\ CollectionOf(req', store')
                  = Append(CollectionOf(req', store), Last(CollectionOf(req', store')))
             /\ \E p \in pending' \ pending : p.id = Last(CollectionOf(req', store')).id
     /\ Relayed => (res'.status = 201 /\ store' = store)
     /\ \A p \in pending :
          /\ AdminGets(<<"api", "admin", "bookings">>) /\ p.req.path = BookingPath
               => \E j \in 1..Len(res'.data) : res'.data[j].id = p.id
          /\ AdminGets(MessagesPath) /\ p.req.path = ContactPath
               => \E j \in 1..Len(res'.data) : res'.data[j].id = p.id
          /\ AdminGets(<<"api", "admin", "bookings", p.id>>)
               => (res'.status = 200 /\ res'.data[1].id = p.id)]_vars

\* C24 happens: a booking submission is answered after its wait, and the
\* booking it pushed, confirmed by the administrator during the wait, is
\* stored as confirmed.
C24_Witness ==
  /\ req # NoRequest
  /\ req.path = BookingPath
  /\ mail \in {"sent", "failed"}
  /\ res.status = 201
  /\ Last(bookings).id = res.id
  /\ Last(bookings).status = "confirmed"
  /\ Last(bookings).updatedAt # NoDate

\* A state-changing POST that reaches the token check: the rate limiter
\* admitted it and the guard, where there is one, let it pass.
TokenChecked ==
  /\ Arrives /\ StateChanging(req') /\ Admitted(req')
  /\ Guarded(req') => req'.session.admin

\* The token was minted in session sid: it is made from the secret that
\* csurf drew for that session.
MintedIn(token, sid) == token # 0 /\ token = sid

\* C25: a state-changing POST that presents the token minted in its own
\* session is not rejected for its token, and the session has the same
\* secret afterwards, so the token can be presented again; one that presents
\* a token minted in another session, live or destroyed (as the session a
\* login replaced is), is answered 403 and changes neither collection.
C25_TokenBoundToSession ==
  [][\A sid \in 1..Len(sessions) :
       /\ (TokenChecked /\ MintedIn(req'.token, sid) /\ req'.session.id = sid
              /\ req'.session.csrfSecret # 0)
            => /\ res'.status # 403
               /\ sessions'[sid].live
               /\ sessions'[sid].csrfSecret = sessions[sid].csrfSecret
       /\ (TokenChecked /\ MintedIn(req'.token, sid) /\ req'.session.id # sid)
            => (res'.status = 403 /\ store' = store)]_vars

\* C25 happens: after a login has replaced the session a token was minted
\* in, a state-changing POST of the new admin session with that token was
\* answered 403.
C25_Witness ==
  /\ req # NoRequest
  /\ StateChanging(req)
  /\ req.session.admin
  /\ req.token \in 1..Len(sessions)
  /\ ~sessions[req.token].live
  /\ req.session.id # req.token
  /\ res.status = 403

\* The login body omits the username or the password.
Omits(r) == "username" \notin DOMAIN r.body \/ "password" \notin DOMAIN r.body

\* The sessions that have the admin flag.
Admins(ss) == {sid \in 1..Len(ss) : ss[sid].admin}

\* C26: under every configuration of the credentials, a login whose body
\* omits the username or the password is answered 401 and puts the admin
\* flag on no session.
C26_OmittedNeverAdmin ==
  [][(Arrives /\ IsLogin(req') /\ Omits(req') /\ Admitted(req'))
       => (res'.status = 401 /\ Admins(sessions') \subseteq Admins(sessions))]_vars

\* C26: with neither credential configured, a login with an empty body was
\* answered 200 and its new session has the admin flag.
C26_EmptyLoginAdmin ==
  /\ env.ADMIN_USERNAME = Undefined /\ env.ADMIN_PASSWORD = Undefined
  /\ req # NoRequest
  /\ IsLogin(req)
  /\ req.body = NoBody
  /\ res.status = 200 /\ res.success
  /\ res.sid \in Admins(sessions)

\* C27: every stored message has a name, an email and a message body that
\* are not empty.
C27_StoredFieldsNonEmpty ==
  \A i \in 1..Len(messages) :
    messages[i].name # <<>> /\ messages[i].email # <<>> /\ messages[i].message # <<>>

\* C27: a contact submission whose name is a single blank was accepted, and
\* the message it stored has the empty name.
C27_BlankStored ==
  /\ req # NoRequest
  /\ req.path = ContactPath
  /\ "name" \in DOMAIN req.body
  /\ req.body.name = <<Blank>>
  /\ mail = "sending"
  /\ Len(messages) = Len(sampleMessages) + 1
  /\ Last(messages).name = <<>>

====
